---- MODULE Spec2Model ----
(***************************************************************************)
(* TidyFeed bot workers: the mention-to-save-command pipeline.             *)
(*                                                                         *)
(* Three variants of the bot are modelled, one behaviour per variant:      *)
(*   "bot"    tidyfeed-bot-worker/bot.py        (twikit, no local dedup)   *)
(*   "direct" tidyfeed-bot-worker/bot_direct.py (StateManager dedup file)  *)
(*   "poller" tidyfeed-python-worker/bot_poller.py (state dict and file)   *)
(* and, as "store", bot_direct.py's StateManager on its own: its methods   *)
(* called in any order.  Further behaviours apply a function to an input   *)
(* drawn in Init: "trigger" (contains_trigger of bot.py and bot_direct.py),*)
(* "parse" (bot.py _parse_tweet_detail), "resolve" (bot.py _fetch_tweet),  *)
(* "mentions" (fetch_mentions_raw, search_mentions and their parsers) and  *)
(* "timing" (the lengths of run_bot's sleeps).  "sequence" is poll_once of *)
(* bot.py and bot_direct.py with every await as a step of its own, and     *)
(* "patch" is the patching of twikit's Client.request by bot.py.           *)
(* "worker" is the download worker, tidyfeed-python-worker/worker.py.      *)
(*                                                                         *)
(* A text is a tuple of one-character strings; a character outside ASCII   *)
(* is written by its code point ("U+6536").  Python's None is a sentinel   *)
(* of the field's type (NoneText, NoneId).                                 *)
(***************************************************************************)
EXTENDS Integers, Sequences, FiniteSets, TLC

(***************************************************************************)
(* Bounds of the model.                                                    *)
(***************************************************************************)
\* mention ids the platform can return: 1..NumIds
NumIds == 2
\* longest list of mentions one fetch returns
MaxBatch == 2
\* capacity of the dedup store in the model; the program's MAX_STORED_IDS
\* is 1000 (bot_direct.py:44), scaled down so that eviction happens
MAX_STORED_IDS == 1
\* number of times the process is stopped and started again
MaxRestarts == 1
\* longest entries list of a TimelineAddEntries instruction
MaxEntries == 2

Ids == 1..NumIds

\* bot_poller.py save_state: the length kept (500 in the program) and the
\* length above which the list is cut (1000 in the program, twice as much)
STATE_KEEP_IDS == MAX_STORED_IDS
STATE_MAX_IDS == 2 * STATE_KEEP_IDS

VARIABLES
    variant,          \* which program runs: "bot", "direct", "poller", "store",
                      \* or which function is applied: "trigger", "parse",
                      \* "resolve", "mentions", "timing";
                      \* "sequence": poll_once step by step; "patch": the
                      \* operations that patch Client.request; "worker":
                      \* worker.py
    pc,               \* position of run_bot: "start" (bot built), "poll", "sleep"
                      \* (poll_once has returned), "sleeping" (in asyncio.sleep), or
                      \* inside poll_once's for loop: "loop" (next item), "called" (a
                      \* call has ended); "aborted" when construction raised,
                      \* "ended" when an exception has left the while loop,
                      \* "stopped" when a shutdown signal has;
                      \* "store": between two calls of StateManager's methods;
                      \* "input", "output": before and after a function is applied;
                      \* "fetching": in the fetch of poll_once (sequence);
                      \* "patched": in the twikit call of an operation (patch)
    batch,            \* ids of the fetched mentions not yet handled in this cycle
    processed_ids,    \* StateManager.processed_ids (direct)
    file_kind,        \* the dedup file: "missing", "unreadable", "corrupt" or "ok"
    file_ids,         \* the 'ids' list of the dedup file when it is "ok"
    dispatched,       \* ids this process has passed to call_bot_save
    dispatched_prev,  \* ids passed to call_bot_save by earlier processes
    handled,          \* bot.py: per id, how an earlier _process_mention call ended
    restarts,         \* number of restarts so far
    calls,            \* bot.py: per id, call_bot_save calls made in the running poll_once
    cycle,            \* how the running (or just ended) poll cycle went
    marked_order,     \* store: ids newly marked since the last load or save, oldest first
    state_ids,        \* poller: state['processed_ids'], a list
    state_file,       \* poller: the 'processed_ids' list of the state file when it is "ok"
    noted,            \* poller: record of the most recent _process_notification call
    _initialized,     \* poller: TidyFeedBot._initialized
    fn_in,            \* the arguments of the function that is applied
    fn_out,           \* what the function returned
    last              \* record of the most recent _process_tweet/_process_mention call

vars == <<variant, pc, batch, processed_ids, file_kind, file_ids,
          dispatched, dispatched_prev, handled, restarts, calls, cycle,
          marked_order, state_ids, state_file, noted, _initialized, fn_in,
          fn_out, last>>

(***************************************************************************)
(* Texts and trigger words.                                                *)
(***************************************************************************)
NoneText == <<"<None>">>
NoneId == "<None>"

UpperCase == <<"A","B","C","D","E","F","G","H","I","J","K","L","M",
               "N","O","P","Q","R","S","T","U","V","W","X","Y","Z">>
LowerCase == <<"a","b","c","d","e","f","g","h","i","j","k","l","m",
               "n","o","p","q","r","s","t","u","v","w","x","y","z">>

\* str.lower() on one character
LowerChar(c) ==
    IF \E i \in 1..Len(UpperCase) : UpperCase[i] = c
    THEN LowerCase[CHOOSE i \in 1..Len(UpperCase) : UpperCase[i] = c]
    ELSE c

\* str.lower()
Lower(text) == [i \in 1..Len(text) |-> LowerChar(text[i])]

\* Python's `t in s` on strings
IsSubstring(t, s) ==
    \E k \in 0..(Len(s) - Len(t)) : \A i \in 1..Len(t) : s[k + i] = t[i]

\* bot_direct.py:46
TRIGGER_WORDS_DIRECT ==
    << <<"s","a","v","e">>, <<"k","e","e","p">>,
       <<"U+6536","U+85CF">>, <<"U+4FDD","U+5B58">>,
       <<"t","i","d","y">>, <<"b","o","o","k","m","a","r","k">> >>

\* bot.py:48; the two non-Latin tokens are stored in the file as these
\* characters (U+00E6 U+201D U+00B6 U+00E8 U+2014 and U+00E4 U+00BF U+00E5
\* U+00AD U+02DC)
TRIGGER_WORDS_BOT ==
    << <<"s","a","v","e">>, <<"k","e","e","p">>,
       <<"U+00E6","U+201D","U+00B6","U+00E8","U+2014">>,
       <<"U+00E4","U+00BF","U+00E5","U+00AD","U+02DC">>,
       <<"t","i","d","y">>, <<"b","o","o","k","m","a","r","k">> >>

AnyTrigger(words, text) ==
    \E j \in 1..Len(words) : IsSubstring(words[j], Lower(text))

\* bot_direct.py contains_trigger: text.lower() raises on None
contains_trigger_direct(text) ==
    IF text = NoneText THEN "raise"
    ELSE IF AnyTrigger(TRIGGER_WORDS_DIRECT, text) THEN "True" ELSE "False"

\* bot_poller.py:55
TRIGGER_WORDS_POLLER ==
    << <<"s","a","v","e">>, <<"k","e","e","p">>,
       <<"U+6536","U+85CF">>, <<"U+4FDD","U+5B58">>,
       <<"b","o","o","k","m","a","r","k">> >>

\* bot_poller.py contains_trigger_word: text.lower() raises on None
contains_trigger_word(text) ==
    IF text = NoneText THEN "raise"
    ELSE IF AnyTrigger(TRIGGER_WORDS_POLLER, text) THEN "True" ELSE "False"

\* bot.py contains_trigger: an empty or None text is no trigger
contains_trigger_bot(text) ==
    IF text = NoneText \/ text = <<>> THEN "False"
    ELSE IF AnyTrigger(TRIGGER_WORDS_BOT, text) THEN "True" ELSE "False"

\* the texts contains_trigger is applied to on its own: a word, or not,
\* between a prefix and a suffix
TriggerTexts ==
    { pre \o word \o post :
        pre \in { <<>>, <<"p","l","s"," ">> },
        word \in { <<"s","a","v","e">>, <<"S","A","V","E">>, <<"K","e","e","p">>,
                   <<"t","i","d","y">>, <<"B","o","o","k","m","a","r","k">>,
                   <<"U+6536","U+85CF">>, <<"U+4FDD","U+5B58">>,
                   <<"U+00E6","U+201D","U+00B6","U+00E8","U+2014">>,
                   <<"s","a","v">>, <<"n","i","c","e"," ","p","o","s","t">>,
                   <<"U+6536">>, <<>> },
        post \in { <<>>, <<" ","t","h","i","s">>, <<"U+85CF">> } }

(***************************************************************************)
(* Inputs: the fields of a mention record, the resolved reply target, the  *)
(* backend's answer.                                                       *)
(***************************************************************************)
\* 'text' of a mention: full_text of the payload, None when it is null
Texts ==
    { NoneText,
      <<"n","i","c","e"," ","p","o","s","t">>,
      <<"p","l","e","a","s","e"," ","S","A","V","E"," ","t","h","i","s">> }

\* 'in_reply_to_status_id' of a mention: absent (None), empty, or an id
ReplyTos == { NoneId, "", "t1" }

\* variant of Truthy that tests `is None` only
Truthy_NoneOnly(s) == s # NoneId

\* Python truthiness of an optional string
Truthy(s) == s # NoneId /\ s # ""

\* 'user_handle' of a mention
Sender == "bob"

\* what _fetch_tweet (bot.py) yields for the reply target: None, a tweet with
\* its author, or a tweet whose user substructure is missing
NoTweet ==
    [found |-> FALSE, text |-> NoneText, author_handle |-> NoneId,
     author_name |-> NoneId, media_urls |-> <<>>]
Targets ==
    { NoTweet,
      [found |-> TRUE, text |-> <<"h","e","l","l","o">>,
       author_handle |-> "alice", author_name |-> "Alice",
       media_urls |-> <<"m1">>],
      [found |-> TRUE, text |-> <<>>, author_handle |-> "",
       author_name |-> "", media_urls |-> <<>>] }

\* a backend answer as the bot reads it with result.get(...): an absent flag
\* reads as false; error tells whether an 'error' string is present
NoResult ==
    [success |-> FALSE, user_found |-> FALSE, saved |-> FALSE,
     already_saved |-> FALSE, already_processed |-> FALSE, error |-> FALSE]
FailResult == [NoResult EXCEPT !.error = TRUE]

\* the JSON bodies the backend can answer with: every combination of the
\* other flags on an already-processed answer; saved, already saved, found
\* only, or unknown sender on a fresh one; success=false with or without
\* user_found
Bodies ==
    { b \in [success : BOOLEAN, user_found : BOOLEAN, saved : BOOLEAN,
             already_saved : BOOLEAN, already_processed : BOOLEAN,
             error : BOOLEAN] :
        /\ b.error = ~b.success
        /\ \/ b.success /\ b.already_processed
           \/ /\ b.success /\ ~b.already_processed
              /\ ~(b.saved /\ b.already_saved)
              /\ (b.saved \/ b.already_saved) => b.user_found
           \/ ~b.success /\ ~b.saved /\ ~b.already_saved /\ ~b.already_processed }

\* what the POST of call_bot_save can meet: a 2xx answer with a body, a
\* non-2xx status, or an exception (network error, timeout)
BackendOutcomes ==
    { [kind |-> "ok", body |-> b] : b \in Bodies }
    \cup { [kind |-> "http_error", body |-> NoResult],
           [kind |-> "exception", body |-> NoResult] }

\* variant of call_bot_save whose failure result has no 'error'
call_bot_save_without_error(outcome) ==
    IF outcome.kind = "ok" THEN outcome.body ELSE NoResult

\* call_bot_save (bot.py:63-92, bot_direct.py:99-110): the value returned
call_bot_save(outcome) ==
    IF outcome.kind = "ok" THEN outcome.body ELSE FailResult

\* what the like request can meet
LikeOutcomes == { "ok", "non200", "exception" }

\* variant of like_tweet without its except clause
like_tweet_unguarded(lo) ==
    IF lo = "ok" THEN "True" ELSE IF lo = "exception" THEN "raise" ELSE "False"

\* bot_direct.py XApiClient.like_tweet: True on status 200, False otherwise
like_tweet(lo) == IF lo = "ok" THEN "True" ELSE "False"

\* bot.py TidyFeedBot._like_tweet: the exception is logged, None is returned
\* (favorite_tweet raises on a non-200 status)
_like_tweet(lo) == "None"

\* a media_urls argument that is not passed
NoneMedia == <<"<None>">>

\* the command handed to call_bot_save; mention_id 0 stands for "not sent"
NoCmd ==
    [handle |-> NoneId, url_handle |-> NoneId, url_id |-> NoneId,
     mention_id |-> 0, tweet_text |-> NoneText, author_handle |-> NoneId,
     author_name |-> NoneId, media_urls |-> NoneMedia]

\* the record of one _process_tweet / _process_mention call
NoCall ==
    [call |-> FALSE, id |-> 0, text |-> NoneText, reply_to |-> NoneId,
     known |-> FALSE, again |-> FALSE, before |-> "new", evaluated |-> FALSE,
     dispatched |-> FALSE, cmd |-> NoCmd, transport |-> "none",
     result |-> NoResult, marked |-> FALSE,
     liked |-> FALSE, like |-> "none", ret |-> "none",
     attempts |-> 0, target |-> NoTweet]

(***************************************************************************)
(* The fetch.                                                              *)
(***************************************************************************)
RECURSIVE SeqsOver(_, _)
\* the sequences over S of length at most n
SeqsOver(S, n) ==
    IF n = 0 THEN { <<>> }
    ELSE LET shorter == SeqsOver(S, n - 1)
         IN shorter \cup
            { Append(q, x) : q \in { r \in shorter : Len(r) = n - 1 },
                             x \in S }

Distinct(q) == \A i, j \in 1..Len(q) : i # j => q[i] # q[j]

\* the id lists a fetch can return (search_mentions, fetch_mentions_raw):
\* the keys of the payload's tweets mapping, so no id occurs twice; the empty
\* list also stands for every failure of the fetch
Batches == { q \in SeqsOver(Ids, MaxBatch) : Distinct(q) }

(***************************************************************************)
(* bot_direct.py: StateManager.                                            *)
(***************************************************************************)
\* the dedup file at startup: not there, there but open() fails, there but
\* not JSON, or written by an earlier save
FileKinds == { "missing", "unreadable", "corrupt", "ok" }

\* variant of _load_outcome without the except clause
_load_outcome_unguarded(kind) ==
    CASE kind = "missing" -> "absent"
      [] kind = "ok" -> "read"
      [] OTHER -> "raised"

\* StateManager._load, how it ends: no file ("absent"), the file was read,
\* or open()/json.load raised and the bare except took it ("caught")
_load_outcome(kind) ==
    CASE kind = "missing" -> "absent"
      [] kind = "ok" -> "read"
      [] OTHER -> "caught"

\* StateManager._load: the ids of a readable file, else the empty set
_load(kind, ids) == IF kind = "ok" THEN ids ELSE {}

\* run_bot after TidyFeedBot(): in its loop unless the constructor raised
Started(outcome) == IF outcome = "raised" THEN "aborted" ELSE "start"

\* StateManager.is_processed
is_processed(store, id) == id \in store

\* StateManager.mark_processed
mark_processed(store, id) == store \cup {id}

\* variant of ids_list without the slice
ids_list_uncut(store) == { store }

\* StateManager.save, list(self.processed_ids)[-MAX_STORED_IDS:]: the lists
\* the slice can yield.  processed_ids is a Python set of strings, whose
\* iteration order is fixed by the strings' hashes (randomised per process),
\* so any MAX_STORED_IDS of the ids can be the ones kept.
ids_list(store) ==
    IF Cardinality(store) <= MAX_STORED_IDS THEN { store }
    ELSE { k \in SUBSET store : Cardinality(k) = MAX_STORED_IDS }

\* what writing the file can meet: written, open() fails (file untouched),
\* or json.dump fails after open() truncated the file
WriteOutcomes == { "ok", "open_fails", "dump_fails" }

\* the file after a write that met w
FileKindAfter(w, kind) ==
    CASE w = "ok" -> "ok"
      [] w = "open_fails" -> kind
      [] w = "dump_fails" -> "corrupt"

\* the poll cycle: whether the fetch returned anything, whether a call
\* raised, how often the store was saved, what the store held when save
\* was called (number of ids; order of the new marks, in bot_poller.py the
\* whole list), whether the file
\* was written, how many fetched mentions were never passed to a call, the
\* sleep that follows the cycle, before the fetch, whether an exception
\* was raised in the cycle before, and the shutdown signal that reached the
\* loop after the cycle with the way run_bot was left; for bot_poller.py,
\* whether poll_notifications was entered, _initialized at its entry,
\* whether get_notifications was called, _initialized at that call, and
\* whether the call raised an authentication error
NoCycle ==
    [fetched |-> FALSE, raised |-> FALSE, saves |-> 0, held |-> 0,
     order |-> <<>>, written |-> FALSE, left |-> 0, sleep |-> "none",
     after_exception |-> FALSE, signal |-> "none", exit |-> "none",
     polled |-> FALSE, entered_ready |-> FALSE, called |-> FALSE,
     ready |-> FALSE, auth_error |-> FALSE]

\* random.randint(POLL_MIN_SECONDS, POLL_MAX_SECONDS): a number, or
\* ValueError when the environment sets POLL_MIN_SECONDS above
\* POLL_MAX_SECONDS
RandintOutcomes == { "ok", "raises" }

\* variant of run_bot_sleep whose except clause does not sleep
run_bot_sleep_without_backoff(randint) ==
    IF randint = "raises" THEN "none" ELSE "jitter"

\* run_bot after poll_once has returned (bot.py:456-472,
\* bot_direct.py:347-359): the sleep of the try body, of a length drawn by
\* randint ("jitter"), or, when the try body raised, the sleep of the
\* except clause ("backoff")
run_bot_sleep(randint) == IF randint = "raises" THEN "backoff" ELSE "jitter"

\* run_bot_loop (bot_poller.py:412-418): asyncio.sleep(POLL_INTERVAL_SECONDS)
\* after the try statement
run_bot_loop_sleep == "interval"

\* variant of run_bot_except without the except Exception clause: what the
\* try body raises leaves the loop
run_bot_unguarded(randint) ==
    IF randint = "raises" THEN "ended" ELSE "sleeping"

\* run_bot's try statement (bot.py:453-472, bot_direct.py:345-359), where
\* the loop is next: what the try body raises is taken by except Exception,
\* which sleeps, so the loop is in a sleep either way
run_bot_except(randint) == "sleeping"

\* how a shutdown signal (SIGINT) reaches run_bot: as KeyboardInterrupt
\* raised in the code of the try body that is running, or as the
\* CancelledError that asyncio.run throws into the task at its await
ShutdownDeliveries == { "KeyboardInterrupt", "CancelledError" }

\* the attributes TidyFeedBot.__init__ sets in bot.py
BotAttributes == { "client", "_authenticated" }

\* run_bot's `except KeyboardInterrupt` clause, how run_bot is left: bot.py
\* evaluates bot.state.save() before its break, bot_direct.py only breaks
run_bot_interrupted(v) ==
    IF v = "bot" /\ "state" \notin BotAttributes THEN "AttributeError"
    ELSE "returned"

\* variant of run_bot_on_signal whose `except` clause also takes
\* CancelledError and sleeps
run_bot_on_signal_caught(v, exc) ==
    IF exc = "KeyboardInterrupt" THEN run_bot_interrupted(v) ELSE "caught"

\* run_bot's try statement on a shutdown signal (bot.py:463-472,
\* bot_direct.py:354-359): KeyboardInterrupt is taken by its clause;
\* CancelledError is a BaseException, no clause takes it and it leaves
\* run_bot
run_bot_on_signal(v, exc) ==
    IF exc = "KeyboardInterrupt" THEN run_bot_interrupted(v) ELSE exc

\* poll_once `if not tweets: return 0`, poll_notifications
\* `if not notifications: return`
no_tweets(b) == b = <<>>

(***************************************************************************)
(* bot_poller.py: the state dict and its file.                             *)
(***************************************************************************)
\* load_state, how it ends
load_state_outcome(kind) ==
    CASE kind = "missing" -> "absent"
      [] kind = "ok" -> "read"
      [] OTHER -> "caught"

\* load_state: the list of a readable file, else the default []
load_state(kind, list) == IF kind = "ok" THEN list ELSE <<>>

\* is_processed(state, notification_id)
is_processed_state(list, id) == \E i \in 1..Len(list) : list[i] = id

\* mark_processed(state, notification_id)
mark_processed_state(list, id) == Append(list, id)

\* Python's q[-n:] for n > 0
LastN(q, n) == IF Len(q) <= n THEN q ELSE SubSeq(q, Len(q) - n + 1, Len(q))

\* save_state:76-77, the list left in state['processed_ids']
save_state(list) ==
    IF Len(list) > STATE_MAX_IDS THEN LastN(list, STATE_KEEP_IDS) ELSE list

\* the ids left in the state file by an earlier run, as many as a cut keeps
OldIds == [i \in 1..STATE_KEEP_IDS |-> i - STATE_KEEP_IDS]

\* extract_command_payload returning None
NoPayload == [target_tweet_id |-> NoneId, target_url |-> <<>>]

\* the record of one _process_notification call
NoNote ==
    [call |-> FALSE, id |-> 0, has_tweet |-> FALSE, text |-> NoneText,
     reply_to |-> NoneId, has_reply_attr |-> FALSE, known |-> FALSE,
     caught |-> FALSE, marked |-> FALSE, handled |-> FALSE, ret |-> "none",
     extracted |-> FALSE, payload |-> NoPayload]

\* a notification as _process_notification reads it: without a tweet, or
\* with a tweet that has a text, an in_reply_to_status_id and, or not, a
\* reply_to attribute
Notifications ==
    { [has_tweet |-> FALSE, text |-> NoneText, reply_to |-> NoneId,
       has_reply_attr |-> FALSE] }
    \cup [has_tweet : { TRUE }, text : Texts, reply_to : ReplyTos,
          has_reply_attr : BOOLEAN]

\* extract_command_payload:139-141, in_reply_to_id: the conditional
\* expression spans the whole `or` chain
in_reply_to_id(n) == IF n.has_reply_attr THEN n.reply_to ELSE NoneId

\* extract_command_payload(notification, tweet) on a tweet whose user has a
\* handle and an id: None without a reply target, else the payload
extract_command_payload(n) ==
    IF ~Truthy(in_reply_to_id(n)) THEN NoPayload
    ELSE [target_tweet_id |-> in_reply_to_id(n),
          target_url |-> <<"https://x.com/i/status/", in_reply_to_id(n)>>]

\* str(e) of what get_notifications raises, by what it contains
ErrorMessages == { "Unauthorized", "401", "Could not authenticate", "timeout" }

\* what get_notifications can do: raise, or return a list
FetchOutcomes ==
    { [raises |-> TRUE, list |-> <<>>, message |-> m] : m \in ErrorMessages }
    \cup { [raises |-> FALSE, list |-> q, message |-> ""] :
             q \in { r \in SeqsOver(Ids, MaxBatch) : Distinct(r) } }

\* poll_notifications:321, the test of its except clause
is_auth_error(message) ==
    message \in { "Unauthorized", "401", "Could not authenticate" }

\* initialize() when _initialized is false: True, or False (it catches
\* whatever its login raises)
InitializeOutcomes == { "ok", "failed" }

\* variant of ensure_initialized without the test of _initialized
ensure_initialized_unchecked(initialized, outcome) ==
    [initialized |-> initialized, proceed |-> TRUE]

\* poll_notifications:287-290: initialize() is called when _initialized is
\* false, and the poll is skipped when it returns False
ensure_initialized(initialized, outcome) ==
    IF initialized THEN [initialized |-> TRUE, proceed |-> TRUE]
    ELSE IF outcome = "ok" THEN [initialized |-> TRUE, proceed |-> TRUE]
    ELSE [initialized |-> FALSE, proceed |-> FALSE]

\* poll_notifications:316-324, _initialized after get_notifications
poll_except(initialized, f) ==
    IF f.raises /\ is_auth_error(f.message) THEN FALSE ELSE initialized

(***************************************************************************)
(* Decisions of _process_tweet (bot_direct.py) and _process_mention        *)
(* (bot.py).                                                               *)
(***************************************************************************)
\* variant of likes_direct that does not look at user_found
likes_direct_on_success(result) == result.success

\* bot_direct.py:306, the branch that likes the mention
likes_direct(result) == result.success /\ result.user_found

\* bot.py:287-299, the branch that likes the mention
likes_bot(result) ==
    result.success /\ ~result.already_processed /\ result.user_found

\* bot_direct.py:303: call_bot_save(sender, target_url, text)
cmd_direct(id, text, reply_to) ==
    [NoCmd EXCEPT !.handle = Sender, !.url_handle = "i", !.url_id = reply_to,
                  !.tweet_text = text]

\* variant of cmd_bot that does not pass mention_id
cmd_bot_without_mention_id(id, reply_to, target) ==
    [handle |-> Sender,
     url_handle |-> IF target.found THEN target.author_handle ELSE "i",
     url_id |-> reply_to, mention_id |-> 0,
     tweet_text |-> target.text, author_handle |-> target.author_handle,
     author_name |-> target.author_name, media_urls |-> target.media_urls]

\* variant of cmd_bot without the fallback branch: every field is read from
\* the target, resolved or not
cmd_bot_without_fallback(id, reply_to, target) ==
    [handle |-> Sender, url_handle |-> target.author_handle,
     url_id |-> reply_to, mention_id |-> id,
     tweet_text |-> target.text, author_handle |-> target.author_handle,
     author_name |-> target.author_name, media_urls |-> target.media_urls]

\* bot.py:258-285: the command built from the resolved target, or the
\* fallback (267-273) when _fetch_tweet returned None
cmd_bot(id, reply_to, target) ==
    IF target.found
    THEN [handle |-> Sender, url_handle |-> target.author_handle,
          url_id |-> reply_to, mention_id |-> id,
          tweet_text |-> target.text, author_handle |-> target.author_handle,
          author_name |-> target.author_name,
          media_urls |-> target.media_urls]
    ELSE [handle |-> Sender, url_handle |-> "i", url_id |-> reply_to,
          mention_id |-> id, tweet_text |-> NoneText, author_handle |-> NoneId,
          author_name |-> NoneId, media_urls |-> <<>>]

\* the call record at entry
Entry(id, text, reply_to, known, again, before) ==
    [NoCall EXCEPT !.call = TRUE, !.id = id, !.text = text,
                   !.reply_to = reply_to, !.known = known, !.again = again,
                   !.before = before]

\* the call record of a call that went through call_bot_save
Dispatched(rec, cmd, outcome) ==
    [rec EXCEPT !.evaluated = TRUE, !.dispatched = TRUE, !.cmd = cmd,
                !.transport = outcome.kind, !.result = call_bot_save(outcome),
                !.attempts = @ + 1]

\* variant of dispatch_direct that marks the mention only on success
dispatch_direct_mark_on_success(rec, cmd, outcome) ==
    [Dispatched(rec, cmd, outcome) EXCEPT
        !.marked = call_bot_save(outcome).success]

\* bot_direct.py:303-304: call_bot_save, then mark_processed whatever it
\* returned
dispatch_direct(rec, cmd, outcome) ==
    [Dispatched(rec, cmd, outcome) EXCEPT !.marked = TRUE]

\* bot.py:277-285: call_bot_save; nothing is marked
dispatch_bot(rec, cmd, outcome) == Dispatched(rec, cmd, outcome)

\* variant of skip_direct that returns without mark_processed
skip_direct_unmarked(rec) == [rec EXCEPT !.evaluated = TRUE, !.ret = "False"]

\* bot_direct.py:288-295: no trigger word, or not a reply: mark_processed
\* and return False
skip_direct(rec) ==
    [rec EXCEPT !.evaluated = TRUE, !.marked = TRUE, !.ret = "False"]

\* variant of skip_bot that marks the mention processed
skip_bot_marked(rec) ==
    [rec EXCEPT !.evaluated = TRUE, !.marked = TRUE, !.ret = "False"]

\* bot.py:243-250: no trigger word, or not a reply: return False, "skip
\* without marking"
skip_bot(rec) == [rec EXCEPT !.evaluated = TRUE, !.ret = "False"]

(***************************************************************************)
(* bot.py: _parse_tweet_detail.  A tweet id and an entry id are tuples of  *)
(* characters like a text.                                                 *)
(***************************************************************************)
TweetPrefix == <<"t","w","e","e","t","-">>

\* ids of the tweets of a conversation, one a prefix of another
TweetIds == { <<"4","2">>, <<"4","2","1">>, <<"7">> }

\* screen_name in core.user_results.result.legacy of a tweet's result
ScreenNameOf(id) ==
    CASE id = <<"4","2">> -> "alice"
      [] id = <<"4","2","1">> -> "carol"
      [] OTHER -> "dave"

\* tweet_results.result of an entry: {} when the path is missing, else the
\* fields _extract_tweet_from_result reads
EmptyResult ==
    [empty |-> TRUE, id_str |-> <<>>, screen_name |-> "", null_core |-> FALSE]
ResultOf(id) ==
    [empty |-> FALSE, id_str |-> id, screen_name |-> ScreenNameOf(id),
     null_core |-> FALSE]

\* a result without its 'core' substructure, and one whose 'core' is null
PartialResult(id) == [ResultOf(id) EXCEPT !.screen_name = ""]
BrokenResult(id) == [ResultOf(id) EXCEPT !.null_core = TRUE]

\* the entries of an instruction: a tweet entry with or without its result,
\* or a cursor entry
EntryPool ==
    UNION { { [entryId |-> TweetPrefix \o id, result |-> EmptyResult],
              [entryId |-> TweetPrefix \o id, result |-> ResultOf(id)] } :
            id \in TweetIds }
    \cup { [entryId |-> <<"c","u","r","s","o","r","-","b","o","t","t","o","m">>,
            result |-> EmptyResult] }

\* data['data']['threaded_conversation_with_injections_v2']['instructions']:
\* one TimelineAddEntries instruction, alone or after another instruction
InstructionLists ==
    { <<[type |-> "TimelineAddEntries", entries |-> e]>> :
         e \in SeqsOver(EntryPool, MaxEntries) }
    \cup { <<[type |-> "TimelineClearCache", entries |-> <<>>],
             [type |-> "TimelineAddEntries", entries |-> e]>> :
             e \in SeqsOver(EntryPool, MaxEntries) }
    \cup { <<>>, <<[type |-> "TimelineClearCache", entries |-> <<>>]>> }

\* what _parse_tweet_detail returns: None, or the dict of
\* _extract_tweet_from_result
NoParsed == [found |-> FALSE, id |-> <<>>, author_handle |-> ""]

\* _extract_tweet_from_result: id from legacy.id_str, author_handle from
\* core.user_results.result.legacy.screen_name ('' where a level is
\* missing); core.get on a null core raises inside the try, the except
\* clause logs it and None is returned
_extract_tweet_from_result(result) ==
    IF result.null_core THEN NoParsed
    ELSE [found |-> TRUE, id |-> result.id_str,
          author_handle |-> result.screen_name]

\* bot.py:357: f'tweet-{target_id}' in entry_id
entry_matches(entry, target_id) ==
    IsSubstring(TweetPrefix \o target_id, entry.entryId)

\* variant of first_entry_result: the first entry that has a result
first_entry_with_result(entries) ==
    IF \E i \in 1..Len(entries) : ~entries[i].result.empty
    THEN entries[CHOOSE i \in 1..Len(entries) :
                    /\ ~entries[i].result.empty
                    /\ \A j \in 1..(i - 1) : entries[j].result.empty].result
    ELSE EmptyResult

\* bot.py:367-372: tweet_results.result of entries[0]
first_entry_result(entries) ==
    IF entries = <<>> THEN EmptyResult ELSE entries[1].result

\* bot.py:350-375: the loop over the entries, returning at the first entry
\* whose id matches and whose result is not empty, then the fallback
parse_entries(entries, target_id) ==
    LET hits == { i \in 1..Len(entries) :
                    /\ entry_matches(entries[i], target_id)
                    /\ ~entries[i].result.empty }
    IN IF hits # {}
       THEN _extract_tweet_from_result(
                entries[CHOOSE i \in hits : \A j \in hits : i <= j].result)
       ELSE IF ~first_entry_result(entries).empty
       THEN _extract_tweet_from_result(first_entry_result(entries))
       ELSE NoParsed

\* _parse_tweet_detail: the first TimelineAddEntries instruction decides
\* (break); None without one
_parse_tweet_detail(instructions, target_id) ==
    LET adds == { i \in 1..Len(instructions) :
                    instructions[i].type = "TimelineAddEntries" }
    IN IF adds = {} THEN NoParsed
       ELSE parse_entries(
                instructions[CHOOSE i \in adds : \A j \in adds : i <= j].entries,
                target_id)

\* how a call ends: it returns a value, or an exception leaves it
Returns(v) == [raised |-> FALSE, value |-> v]
Raises == [raised |-> TRUE, value |-> NoParsed]

\* the captured TweetDetail response: complete, without 'data', without
\* 'threaded_conversation_with_injections_v2', without 'instructions', with
\* "data": null, or not a JSON object at all
PayloadShapes ==
    { "full", "no_data", "no_conversation", "no_instructions", "null_data",
      "not_a_dict" }

\* bot.py:345-346: .get on None or on a list raises AttributeError
navigation_raises(shape) == shape \in { "null_data", "not_a_dict" }

\* bot.py:345-346: the chain of .get(..., {}) and .get('instructions', [])
instructions_of(shape, instructions) ==
    IF shape = "full" THEN instructions ELSE <<>>

\* the try body of _parse_tweet_detail
parse_tweet_detail_body(shape, instructions, target_id) ==
    IF navigation_raises(shape) THEN Raises
    ELSE Returns(_parse_tweet_detail(instructions_of(shape, instructions),
                                     target_id))

\* variant of parse_except that lets the exception through
except_reraised(outcome) == outcome

\* bot.py:378-380: except Exception logs, then return None
parse_except(outcome) ==
    IF outcome.raised THEN Returns(NoParsed) ELSE outcome

\* _parse_tweet_detail(data, target_id) as its caller sees it
parse_tweet_detail_call(shape, instructions, target_id) ==
    parse_except(parse_tweet_detail_body(shape, instructions, target_id))

\* what the patched request left in captured_data: nothing (no TweetDetail
\* request was made), a falsy response, or a payload
Captures == { "absent", "falsy", "payload" }

\* get_tweet_by_id: returns, or raises (twikit fails on the response)
ClientOutcomes == { "ok", "raises" }

\* bot.py:336-337: except Exception logs, then return None
fetch_except(outcome) ==
    IF outcome.raised THEN Returns(NoParsed) ELSE outcome

\* _fetch_tweet(tweet_id): the exception of get_tweet_by_id is logged
\* (326-328); the captured response, when truthy, is parsed inside a try
_fetch_tweet(client, captured, shape, instructions, tweet_id) ==
    IF captured = "payload"
    THEN fetch_except(parse_tweet_detail_call(shape, instructions, tweet_id))
    ELSE Returns(NoParsed)

\* the entries of a payload handed to _fetch_tweet for tweet 42: its result
\* complete, without core, with a null core, or missing; another tweet's
ResolvePool ==
    { [entryId |-> TweetPrefix \o <<"4","2">>, result |-> r] :
        r \in { ResultOf(<<"4","2">>), PartialResult(<<"4","2">>),
                BrokenResult(<<"4","2">>), EmptyResult } }
    \cup { [entryId |-> TweetPrefix \o <<"7">>, result |-> r] :
             r \in { ResultOf(<<"7">>), BrokenResult(<<"7">>) } }

\* the payloads: every shape; a complete one has an instruction list, with or
\* without a TimelineAddEntries instruction
ResolvePayloads ==
    { [shape |-> sh, instructions |-> <<>>] : sh \in PayloadShapes }
    \cup { [shape |-> "full",
             instructions |-> <<[type |-> "TimelineClearCache", entries |-> <<>>]>>] }
    \cup { [shape |-> "full",
             instructions |-> <<[type |-> "TimelineAddEntries", entries |-> e]>>] :
             e \in SeqsOver(ResolvePool, MaxEntries) }

(***************************************************************************)
(* The mention fetch: fetch_mentions_raw and parse_mentions_response       *)
(* (bot.py), search_mentions and _parse_search_results (bot_direct.py).    *)
(***************************************************************************)
\* a value of the payload's tweets mapping: a tweet object with its fields
\* and its user, an empty object, null, or an object whose user is null in
\* the users mapping
EntryKinds == { "complete", "bare", "null", "null_user" }

\* tweet.get on None (bot.py:119, bot_direct.py:199), user.get on None
\* (bot.py:125, bot_direct.py:205) raise AttributeError
entry_raises(e) == e.kind \in { "null", "null_user" }

\* the record appended for an entry (bot.py:122-129, bot_direct.py:202-209):
\* missing fields read as '' or None
mention_of(e) == [id |-> e.id, has_fields |-> e.kind = "complete"]

RECURSIVE parse_tweets(_)
\* the for loop over tweets.items() (bot.py:118-129, bot_direct.py:198-209)
\* inside the function's one try: the entry that raises ends the loop, the
\* records appended before it stay in the list
parse_tweets(tweets) ==
    IF tweets = <<>> \/ entry_raises(Head(tweets)) THEN <<>>
    ELSE <<mention_of(Head(tweets))>> \o parse_tweets(Tail(tweets))

\* the payload: with globalObjects, without it, with "globalObjects": null,
\* or not a JSON object
MentionShapes == { "full", "no_objects", "null_objects", "not_a_dict" }

\* bot.py parse_mentions_response: data.get and global_objects.get raise on
\* a wrong shape inside the try; the list built so far is returned
parse_mentions_response(shape, tweets) ==
    IF shape = "full" THEN parse_tweets(tweets) ELSE <<>>

\* bot_direct.py XApiClient._parse_search_results
_parse_search_results(shape, tweets) ==
    IF shape = "full" THEN parse_tweets(tweets) ELSE <<>>

\* what the request of the fetch meets: a 200 answer with a JSON body, a
\* network failure, another status, no response captured, a body that is
\* not JSON
Transports ==
    { "ok", "network_error", "non200", "no_response", "invalid_json" }

\* variant of mentions_except that lets the exception through
mentions_except_reraised(outcome) == outcome

\* bot.py:200-202, bot_direct.py:186-188: except Exception logs, return []
mentions_except(outcome) ==
    IF outcome.raised THEN Returns(<<>>) ELSE outcome

\* fetch_mentions_raw: get_notifications raises on a network failure, on a
\* status other than 200 and on a body it cannot decode; without a captured
\* response the function returns [] (line 198)
fetch_mentions_raw(transport, shape, tweets) ==
    mentions_except(
        CASE transport = "ok" -> Returns(parse_mentions_response(shape, tweets))
          [] transport = "no_response" -> Returns(<<>>)
          [] OTHER -> Raises)

\* search_mentions: http.get raises on a network failure or a timeout,
\* response.json() on a body that is not JSON; a status other than 200
\* returns [] (line 184)
search_mentions(transport, shape, tweets) ==
    mentions_except(
        CASE transport = "ok" -> Returns(_parse_search_results(shape, tweets))
          [] transport = "non200" -> Returns(<<>>)
          [] OTHER -> Raises)

\* the tweets mappings of a payload: at most MaxBatch entries, no id twice
TweetMappings ==
    { q \in SeqsOver([id : Ids, kind : EntryKinds], MaxBatch) :
        \A i, j \in 1..Len(q) : i # j => q[i].id # q[j].id }

(***************************************************************************)
(* The lengths of run_bot's sleeps (bot.py, bot_direct.py), in seconds.    *)
(***************************************************************************)
\* bot.py:41, bot_direct.py:39: the default of POLL_MIN_SECONDS
POLL_MIN_SECONDS == 45
\* bot.py:42, bot_direct.py:40: the default of POLL_MAX_SECONDS
POLL_MAX_SECONDS == 90
\* bot.py:472, bot_direct.py:359: asyncio.sleep(60) of the except clause
EXCEPT_SLEEP_SECONDS == 60

\* POLL_MIN_SECONDS and POLL_MAX_SECONDS as the environment leaves them:
\* both defaults, one of them overridden, or both set to the same number
PollSettings ==
    { [min |-> POLL_MIN_SECONDS, max |-> POLL_MAX_SECONDS],
      [min |-> 120, max |-> POLL_MAX_SECONDS],
      [min |-> POLL_MIN_SECONDS, max |-> 30],
      [min |-> 50, max |-> 50] }

\* variant of randint whose upper end is not included in POLL_MAX_SECONDS
randint_beyond(a, b) == a..(b + 1)

\* random.randint(a, b): the integers it can return; none when a > b, and
\* the call raises ValueError
randint(a, b) == a..b

\* a sleep: which one and how long
NoSleep == [kind |-> "none", seconds |-> 0]

\* run_bot after poll_once has returned (bot.py:456-472,
\* bot_direct.py:347-359): the sleeps it can go into
sleep_times(settings) ==
    IF randint(settings.min, settings.max) = {}
    THEN { [kind |-> "backoff", seconds |-> EXCEPT_SLEEP_SECONDS] }
    ELSE { [kind |-> "jitter", seconds |-> d] :
             d \in randint(settings.min, settings.max) }

\* fn_in, fn_out where no function is applied
NoInput ==
    [text |-> NoneText, instructions |-> <<>>, target_id |-> <<>>,
     shape |-> "full", client |-> "ok", captured |-> "absent",
     transport |-> "ok", tweets |-> <<>>,
     settings |-> [min |-> POLL_MIN_SECONDS, max |-> POLL_MAX_SECONDS],
     task |-> "none", download |-> "ok", upload_info |-> "ok",
     upload |-> "ok"]
NoOutput ==
    [bot |-> "none", direct |-> "none", parsed |-> NoParsed,
     parse_call |-> Returns(NoParsed), fetched |-> Returns(NoParsed),
     mentions |-> <<>>, search_results |-> <<>>,
     fetched_raw |-> Returns(<<>>), searched |-> Returns(<<>>),
     slept |-> NoSleep, slept_before |-> NoSleep,
     fetching |-> FALSE, stage |-> [i \in Ids |-> "idle"],
     request |-> 0, original_request |-> 0, op |-> "none",
     call |-> "none", completions |-> <<>>, raised |-> FALSE]

(***************************************************************************)
(* State after construction: run_bot has built the bot (StateManager, or   *)
(* load_state, loaded whatever file there was) and is about to enter its   *)
(* loop; run_bot_loop of bot_poller.py has returned unless its first       *)
(* initialize() succeeded.                                                 *)
(***************************************************************************)
Init ==
    /\ variant \in { "bot", "direct", "poller", "store", "trigger", "parse",
                    "resolve", "mentions", "timing", "sequence", "patch",
                    "worker" }
    /\ batch = <<>>
    /\ file_kind \in (IF variant \in { "direct", "poller", "store" }
                      THEN FileKinds ELSE { "missing" })
    /\ file_ids = {}
    /\ state_file = IF variant = "poller" /\ file_kind = "ok" THEN OldIds ELSE <<>>
    /\ processed_ids = _load(file_kind, file_ids)
    /\ state_ids = load_state(file_kind, state_file)
    /\ pc = CASE variant = "direct" -> Started(_load_outcome(file_kind))
              [] variant = "poller" -> Started(load_state_outcome(file_kind))
              [] variant = "store" -> "store"
              [] variant \in { "trigger", "parse", "resolve", "mentions",
                                "timing", "patch", "worker" } -> "input"
              [] OTHER -> "start"
    /\ dispatched = {}
    /\ dispatched_prev = {}
    /\ handled = [i \in Ids |-> "new"]
    /\ restarts = 0
    /\ calls = [i \in Ids |-> 0]
    /\ cycle = NoCycle
    /\ marked_order = <<>>
    /\ noted = NoNote
    /\ _initialized = (variant = "poller")
    /\ fn_in \in CASE variant = "trigger" ->
                      { [NoInput EXCEPT !.text = t] : t \in TriggerTexts }
                  [] variant = "parse" ->
                      { [NoInput EXCEPT !.instructions = d, !.target_id = t] :
                          d \in InstructionLists, t \in { <<"4","2">>, <<"7">> } }
                  [] variant = "resolve" ->
                      { [NoInput EXCEPT !.shape = d.shape,
                                        !.instructions = d.instructions,
                                        !.target_id = <<"4","2">>,
                                        !.client = c, !.captured = k] :
                          d \in ResolvePayloads, c \in ClientOutcomes,
                          k \in Captures }
                  [] variant = "mentions" ->
                      { [NoInput EXCEPT !.transport = t, !.shape = "full",
                                        !.tweets = q] :
                          t \in Transports, q \in TweetMappings }
                      \cup { [NoInput EXCEPT !.shape = sh] :
                               sh \in MentionShapes }
                  [] variant = "timing" ->
                      { [NoInput EXCEPT !.settings = c] : c \in PollSettings }
                  [] OTHER -> { NoInput }
    /\ fn_out = NoOutput
    /\ last = NoCall

(***************************************************************************)
(* bot_direct.py                                                           *)
(***************************************************************************)
\* poll_once up to the for loop: the fetch; an empty list returns 0 at once
PollOnceDirect ==
    /\ variant = "direct"
    /\ pc = "poll"
    /\ \E b \in Batches :
         /\ batch' = b
         /\ cycle' = [NoCycle EXCEPT !.fetched = b # <<>>]
         /\ pc' = IF no_tweets(b) THEN "sleep" ELSE "loop"
    /\ last' = NoCall
    /\ UNCHANGED <<variant, _initialized, fn_in, fn_out, calls, processed_ids, file_kind, file_ids,
                   dispatched, dispatched_prev, handled, restarts,
                   marked_order, state_ids, state_file, noted>>

\* the effect of one _process_tweet call, recorded in rec, on the bot
ReturnDirect(rec) ==
    /\ last' = rec
    /\ processed_ids' = IF rec.marked THEN mark_processed(processed_ids, rec.id)
                        ELSE processed_ids
    /\ dispatched' = IF rec.dispatched THEN dispatched \cup {rec.id}
                     ELSE dispatched
    /\ pc' = "called"
    /\ UNCHANGED <<variant, _initialized, fn_in, fn_out, calls, batch, file_kind, file_ids, dispatched_prev,
                   handled, restarts, cycle, marked_order, state_ids,
                   state_file, noted>>

\* one _process_tweet(tweet) call of poll_once's for loop
ProcessTweet ==
    /\ variant = "direct"
    /\ pc = "loop"
    /\ batch # <<>>
    /\ \E text \in Texts, reply_to \in ReplyTos :
         LET tweet_id == Head(batch)
             rec == Entry(tweet_id, text, reply_to,
                          is_processed(processed_ids, tweet_id),
                          tweet_id \in dispatched, "new")
             trig == contains_trigger_direct(text)
             seen == [rec EXCEPT !.evaluated = TRUE]
         IN IF is_processed(processed_ids, tweet_id)
            THEN ReturnDirect([rec EXCEPT !.ret = "False"])
            ELSE IF trig = "raise"
            THEN ReturnDirect([seen EXCEPT !.ret = "raise"])
            ELSE IF trig = "False"
            THEN ReturnDirect(skip_direct(rec))
            ELSE IF ~Truthy(reply_to)
            THEN ReturnDirect(skip_direct(rec))
            ELSE \E outcome \in BackendOutcomes :
                   LET sent == dispatch_direct(rec, cmd_direct(tweet_id, text, reply_to),
                                               outcome)
                   IN IF likes_direct(sent.result)
                      THEN \E lo \in LikeOutcomes :
                             ReturnDirect([sent EXCEPT
                                 !.liked = TRUE, !.like = lo,
                                 !.ret = IF like_tweet(lo) = "raise"
                                         THEN "raise" ELSE "True"])
                      ELSE ReturnDirect([sent EXCEPT !.ret = "False"])

\* poll_once after a call: the for loop goes on with the next tweet; a call
\* that raised ends poll_once in its except clause (return 0, no save)
ForNext ==
    /\ pc = "called"
    /\ IF last.ret = "raise"
       THEN /\ batch' = <<>> /\ pc' = "sleep" /\ calls' = [i \in Ids |-> 0]
            /\ cycle' = [cycle EXCEPT !.raised = TRUE,
                                      !.left = Len(batch) - 1]
       ELSE /\ batch' = Tail(batch) /\ pc' = "loop" /\ calls' = calls
            /\ cycle' = cycle
    /\ last' = NoCall
    /\ noted' = NoNote
    /\ UNCHANGED <<variant, _initialized, fn_in, fn_out, processed_ids, file_kind, file_ids,
                   dispatched, dispatched_prev, handled, restarts,
                   marked_order, state_ids, state_file>>

\* the end of poll_once's for loop: self.state.save(), return processed
SaveState ==
    /\ variant = "direct"
    /\ pc = "loop"
    /\ batch = <<>>
    /\ \E kept \in ids_list(processed_ids), w \in WriteOutcomes :
         /\ processed_ids' = kept
         /\ file_kind' = FileKindAfter(w, file_kind)
         /\ file_ids' = CASE w = "ok" -> kept
                          [] w = "open_fails" -> file_ids
                          [] w = "dump_fails" -> {}
         /\ cycle' = [cycle EXCEPT !.saves = @ + 1,
                                   !.held = Cardinality(processed_ids),
                                   !.written = (w = "ok")]
    /\ pc' = "sleep"
    /\ last' = NoCall
    /\ UNCHANGED <<variant, _initialized, fn_in, fn_out, calls, batch, dispatched, dispatched_prev, handled,
                   restarts, marked_order, state_ids, state_file, noted>>

\* the process stops, between two steps of poll_once or while it sleeps,
\* and a new one starts: StateManager() loads the file
Restart ==
    /\ variant = "direct"
    /\ restarts < MaxRestarts
    /\ pc # "called"
    /\ restarts' = restarts + 1
    /\ processed_ids' = _load(file_kind, file_ids)
    /\ dispatched_prev' = dispatched_prev \cup dispatched
    /\ dispatched' = {}
    /\ batch' = <<>>
    /\ cycle' = NoCycle
    /\ pc' = Started(_load_outcome(file_kind))
    /\ last' = NoCall
    /\ UNCHANGED <<variant, _initialized, fn_in, fn_out, calls, file_kind, file_ids, handled,
                   marked_order, state_ids, state_file, noted>>

(***************************************************************************)
(* bot_direct.py's StateManager on its own                                 *)
(***************************************************************************)
\* StateManager.mark_processed(tweet_id)
MarkProcessed ==
    /\ variant = "store"
    /\ \E id \in Ids :
         /\ processed_ids' = mark_processed(processed_ids, id)
         /\ marked_order' = IF is_processed(processed_ids, id) THEN marked_order
                            ELSE Append(marked_order, id)
    /\ cycle' = NoCycle
    /\ UNCHANGED <<variant, _initialized, fn_in, fn_out, pc, calls, batch, file_kind, file_ids, dispatched,
                   dispatched_prev, handled, restarts, state_ids, state_file,
                   noted, last>>

\* StateManager.save()
Save ==
    /\ variant = "store"
    /\ \E kept \in ids_list(processed_ids), w \in WriteOutcomes :
         /\ processed_ids' = kept
         /\ file_kind' = FileKindAfter(w, file_kind)
         /\ file_ids' = CASE w = "ok" -> kept
                          [] w = "open_fails" -> file_ids
                          [] w = "dump_fails" -> {}
         /\ cycle' = [NoCycle EXCEPT !.saves = 1,
                                     !.held = Cardinality(processed_ids),
                                     !.order = marked_order,
                                     !.written = (w = "ok")]
    /\ marked_order' = <<>>
    /\ UNCHANGED <<variant, _initialized, fn_in, fn_out, pc, calls, batch, dispatched, dispatched_prev,
                   handled, restarts, state_ids, state_file, noted, last>>

\* a new StateManager(): _load
Load ==
    /\ variant = "store"
    /\ restarts < MaxRestarts
    /\ restarts' = restarts + 1
    /\ processed_ids' = _load(file_kind, file_ids)
    /\ marked_order' = <<>>
    /\ cycle' = NoCycle
    /\ UNCHANGED <<variant, _initialized, fn_in, fn_out, pc, calls, batch, file_kind, file_ids, dispatched,
                   dispatched_prev, handled, state_ids, state_file, noted, last>>

(***************************************************************************)
(* bot.py                                                                  *)
(***************************************************************************)
\* poll_once up to the for loop: the fetch; an empty list returns 0 at once
PollOnceBot ==
    /\ variant = "bot"
    /\ pc = "poll"
    /\ \E b \in Batches :
         /\ batch' = b
         /\ cycle' = [NoCycle EXCEPT !.fetched = b # <<>>]
         /\ pc' = IF no_tweets(b) THEN "sleep" ELSE "loop"
    /\ last' = NoCall
    /\ UNCHANGED <<variant, _initialized, fn_in, fn_out, calls, processed_ids, file_kind, file_ids,
                   dispatched, dispatched_prev, handled, restarts,
                   marked_order, state_ids, state_file, noted>>

\* how a finished _process_mention call is remembered for its id
HowHandled(rec) ==
    IF rec.ret = "raise" THEN handled[rec.id]
    ELSE IF ~rec.dispatched
    THEN (IF contains_trigger_bot(rec.text) = "True"
          THEN "skipped_no_reply" ELSE "skipped_no_trigger")
    ELSE IF rec.result.success /\ rec.result.user_found /\ rec.result.saved
    THEN "saved"
    ELSE handled[rec.id]

\* the effect of one _process_mention call on the bot: bot.py keeps no
\* state of its own
ReturnBot(rec) ==
    /\ last' = rec
    /\ handled' = [handled EXCEPT ![rec.id] = HowHandled(rec)]
    /\ calls' = [calls EXCEPT ![rec.id] = @ + rec.attempts]
    /\ pc' = "called"
    /\ UNCHANGED <<variant, _initialized, fn_in, fn_out, batch, processed_ids, file_kind, file_ids,
                   dispatched, dispatched_prev, restarts, cycle,
                   marked_order, state_ids, state_file, noted>>

\* one _process_mention(mention) call of poll_once's for loop
ProcessMention ==
    /\ variant = "bot"
    /\ pc = "loop"
    /\ batch # <<>>
    /\ \E text \in Texts, reply_to \in ReplyTos :
         LET tweet_id == Head(batch)
             rec == Entry(tweet_id, text, reply_to, FALSE, FALSE,
                          handled[tweet_id])
         IN IF text = NoneText
            THEN \* text[:80] in the logging call of line 239 raises
                 ReturnBot([rec EXCEPT !.ret = "raise"])
            ELSE IF contains_trigger_bot(text) # "True"
            THEN ReturnBot(skip_bot(rec))
            ELSE IF ~Truthy(reply_to)
            THEN ReturnBot(skip_bot(rec))
            ELSE \E target \in Targets, outcome \in BackendOutcomes :
                   LET sent == dispatch_bot([rec EXCEPT !.target = target],
                                            cmd_bot(tweet_id, reply_to, target),
                                            outcome)
                   IN IF likes_bot(sent.result)
                      THEN \E lo \in LikeOutcomes \ { "non200" } :
                             ReturnBot([sent EXCEPT
                                 !.liked = TRUE, !.like = lo,
                                 !.ret = IF _like_tweet(lo) = "raise"
                                         THEN "raise" ELSE "True"])
                      ELSE ReturnBot([sent EXCEPT !.ret = "False"])

\* the end of poll_once's for loop: return processed
PollOnceBotEnd ==
    /\ variant = "bot"
    /\ pc = "loop"
    /\ batch = <<>>
    /\ pc' = "sleep"
    /\ calls' = [i \in Ids |-> 0]
    /\ last' = NoCall
    /\ UNCHANGED <<variant, _initialized, fn_in, fn_out, batch, processed_ids, file_kind, file_ids,
                   dispatched, dispatched_prev, handled, restarts, cycle,
                   marked_order, state_ids, state_file, noted>>

(***************************************************************************)
(* bot_poller.py                                                           *)
(***************************************************************************)
\* poll_notifications up to the for loop: initialize() when the bot is not
\* initialized (return when it fails); then get_notifications raises (the
\* except clause logs it and resets _initialized on an authentication
\* error), returns nothing (return at once), or a list
PollNotifications ==
    /\ variant = "poller"
    /\ pc = "poll"
    /\ \E o \in InitializeOutcomes, f \in FetchOutcomes :
         LET e == ensure_initialized(_initialized, o)
             begun == [NoCycle EXCEPT !.polled = TRUE,
                                      !.entered_ready = _initialized]
         IN IF ~e.proceed
            THEN /\ batch' = <<>>
                 /\ cycle' = begun
                 /\ pc' = "sleep"
                 /\ _initialized' = e.initialized
            ELSE /\ batch' = f.list
                 /\ cycle' = [begun EXCEPT
                                 !.called = TRUE, !.ready = e.initialized,
                                 !.fetched = f.list # <<>>,
                                 !.raised = f.raises,
                                 !.auth_error =
                                     f.raises /\ is_auth_error(f.message)]
                 /\ pc' = IF f.raises \/ no_tweets(f.list)
                          THEN "sleep" ELSE "loop"
                 /\ _initialized' = poll_except(e.initialized, f)
    /\ noted' = NoNote
    /\ UNCHANGED <<variant, fn_in, fn_out, calls, processed_ids, file_kind, file_ids,
                   dispatched, dispatched_prev, handled, restarts,
                   marked_order, state_ids, state_file, last>>

\* the effect of one _process_notification call on the bot
ReturnPoller(rec) ==
    /\ noted' = rec
    /\ state_ids' = IF rec.marked THEN mark_processed_state(state_ids, rec.id)
                    ELSE state_ids
    /\ pc' = "called"
    /\ UNCHANGED <<variant, _initialized, fn_in, fn_out, calls, batch, processed_ids, file_kind, file_ids,
                   dispatched, dispatched_prev, handled, restarts, cycle,
                   marked_order, state_file, last>>

\* one _process_notification(notification) call of the for loop; whatever
\* raises inside is caught by the call itself, which then returns False
ProcessNotification ==
    /\ variant = "poller"
    /\ pc = "loop"
    /\ batch # <<>>
    /\ \E n \in Notifications :
         LET notification_id == Head(batch)
             rec == [NoNote EXCEPT !.call = TRUE, !.id = notification_id,
                        !.has_tweet = n.has_tweet, !.text = n.text,
                        !.reply_to = n.reply_to,
                        !.has_reply_attr = n.has_reply_attr,
                        !.known = is_processed_state(state_ids, notification_id)]
             trig == contains_trigger_word(n.text)
         IN IF ~n.has_tweet
            THEN ReturnPoller([rec EXCEPT !.ret = "False"])
            ELSE IF is_processed_state(state_ids, notification_id)
            THEN ReturnPoller([rec EXCEPT !.ret = "False"])
            ELSE IF trig = "raise"
            THEN ReturnPoller([rec EXCEPT !.caught = TRUE, !.ret = "False"])
            ELSE IF trig = "False"
            THEN ReturnPoller([rec EXCEPT !.marked = TRUE, !.ret = "False"])
            ELSE IF extract_command_payload(n) = NoPayload
            THEN ReturnPoller([rec EXCEPT !.extracted = TRUE,
                                          !.marked = TRUE, !.ret = "False"])
            ELSE ReturnPoller([rec EXCEPT
                                  !.extracted = TRUE,
                                  !.payload = extract_command_payload(n),
                                  !.handled = TRUE, !.marked = TRUE,
                                  !.ret = "True"])

\* the end of poll_notifications' for loop: save_state(self.state)
SaveStatePoller ==
    /\ variant = "poller"
    /\ pc = "loop"
    /\ batch = <<>>
    /\ \E w \in WriteOutcomes :
         /\ state_ids' = save_state(state_ids)
         /\ file_kind' = FileKindAfter(w, file_kind)
         /\ state_file' = CASE w = "ok" -> save_state(state_ids)
                            [] w = "open_fails" -> state_file
                            [] w = "dump_fails" -> <<>>
         /\ cycle' = [cycle EXCEPT !.saves = @ + 1, !.held = Len(state_ids),
                                   !.order = state_ids,
                                   !.written = (w = "ok")]
    /\ pc' = "sleep"
    /\ noted' = NoNote
    /\ UNCHANGED <<variant, _initialized, fn_in, fn_out, calls, batch, processed_ids, file_ids,
                   dispatched, dispatched_prev, handled, restarts,
                   marked_order, last>>

(***************************************************************************)
(* Functions applied on their own.                                         *)
(***************************************************************************)
\* contains_trigger(text) of bot.py and of bot_direct.py
ContainsTrigger ==
    /\ variant = "trigger"
    /\ pc = "input"
    /\ fn_out' = [NoOutput EXCEPT !.bot = contains_trigger_bot(fn_in.text),
                                  !.direct = contains_trigger_direct(fn_in.text)]
    /\ pc' = "output"
    /\ UNCHANGED <<variant, _initialized, fn_in, calls, batch, processed_ids, file_kind,
                   file_ids, dispatched, dispatched_prev, handled, restarts,
                   cycle, marked_order, state_ids, state_file, noted, last>>

\* _parse_tweet_detail(data, target_id)
ParseTweetDetail ==
    /\ variant = "parse"
    /\ pc = "input"
    /\ fn_out' = [NoOutput EXCEPT
                     !.parsed = _parse_tweet_detail(fn_in.instructions,
                                                    fn_in.target_id)]
    /\ pc' = "output"
    /\ UNCHANGED <<variant, _initialized, fn_in, calls, batch, processed_ids, file_kind,
                   file_ids, dispatched, dispatched_prev, handled, restarts,
                   cycle, marked_order, state_ids, state_file, noted, last>>

\* _fetch_tweet(tweet_id), and _parse_tweet_detail on the same payload
FetchTweet ==
    /\ variant = "resolve"
    /\ pc = "input"
    /\ fn_out' = [NoOutput EXCEPT
                     !.parse_call = parse_tweet_detail_call(
                                        fn_in.shape, fn_in.instructions,
                                        fn_in.target_id),
                     !.fetched = _fetch_tweet(fn_in.client, fn_in.captured,
                                              fn_in.shape, fn_in.instructions,
                                              fn_in.target_id)]
    /\ pc' = "output"
    /\ UNCHANGED <<variant, _initialized, fn_in, calls, batch, processed_ids, file_kind,
                   file_ids, dispatched, dispatched_prev, handled, restarts,
                   cycle, marked_order, state_ids, state_file, noted, last>>

\* fetch_mentions_raw() and search_mentions(username) on the same answer,
\* and the two parsers on its payload
FetchMentions ==
    /\ variant = "mentions"
    /\ pc = "input"
    /\ fn_out' = [NoOutput EXCEPT
                     !.mentions = parse_mentions_response(fn_in.shape,
                                                          fn_in.tweets),
                     !.search_results = _parse_search_results(fn_in.shape,
                                                              fn_in.tweets),
                     !.fetched_raw = fetch_mentions_raw(
                                         fn_in.transport, fn_in.shape,
                                         fn_in.tweets),
                     !.searched = search_mentions(
                                      fn_in.transport, fn_in.shape,
                                      fn_in.tweets)]
    /\ pc' = "output"
    /\ UNCHANGED <<variant, _initialized, fn_in, calls, batch, processed_ids, file_kind,
                   file_ids, dispatched, dispatched_prev, handled, restarts,
                   cycle, marked_order, state_ids, state_file, noted, last>>

\* run_bot, one iteration of the while loop after poll_once has returned:
\* the length of the sleep; fn_out keeps the sleep of the iteration before
SleepTime ==
    /\ variant = "timing"
    /\ pc = "input"
    /\ \E t \in sleep_times(fn_in.settings) :
         fn_out' = [fn_out EXCEPT !.slept = t, !.slept_before = fn_out.slept]
    /\ pc' = "output"
    /\ UNCHANGED <<variant, _initialized, fn_in, calls, batch, processed_ids, file_kind,
                   file_ids, dispatched, dispatched_prev, handled, restarts,
                   cycle, marked_order, state_ids, state_file, noted, last>>

\* run_bot: the sleep is over, the next iteration calls poll_once
SleepOver ==
    /\ variant = "timing"
    /\ pc = "output"
    /\ pc' = "input"
    /\ UNCHANGED <<variant, _initialized, fn_in, fn_out, calls, batch, processed_ids,
                   file_kind, file_ids, dispatched, dispatched_prev, handled,
                   restarts, cycle, marked_order, state_ids, state_file,
                   noted, last>>

(***************************************************************************)
(* poll_once of bot.py and bot_direct.py, await by await                   *)
(***************************************************************************)
\* the mentions whose _process_mention (_process_tweet) call has started
\* and not returned
InFlight == { i \in Ids : fn_out.stage[i] # "idle" }

\* variant of for_may_go_on whose loop starts each call as a task of its
\* own (asyncio.create_task) and goes on
for_may_go_on_tasks(in_flight) == TRUE

\* `if await self._process_mention(mention)` (bot.py:220,
\* bot_direct.py:267): the for loop, and with it poll_once, is suspended
\* until the call it awaits has returned
for_may_go_on(in_flight) == in_flight = {}

\* the awaits of one call, in their order: _fetch_tweet (bot.py:257), then
\* call_bot_save, then _like_tweet (bot.py:298, bot_direct.py:311); a call
\* returns after any of them
after_stage(stage) ==
    CASE stage = "resolve" -> { "dispatch", "idle" }
      [] stage = "dispatch" -> { "like", "idle" }
      [] OTHER -> { "idle" }

\* poll_once is called and awaits the fetch
SeqFetchStart ==
    /\ variant = "sequence"
    /\ pc = "start"
    /\ fn_out' = [fn_out EXCEPT !.fetching = TRUE]
    /\ pc' = "fetching"
    /\ UNCHANGED <<variant, _initialized, fn_in, calls, batch, processed_ids, file_kind,
                   file_ids, dispatched, dispatched_prev, handled, restarts,
                   cycle, marked_order, state_ids, state_file, noted, last>>

\* the fetch returns its list
SeqFetchEnd ==
    /\ variant = "sequence"
    /\ pc = "fetching"
    /\ \E b \in Batches : batch' = b
    /\ fn_out' = [fn_out EXCEPT !.fetching = FALSE]
    /\ pc' = "loop"
    /\ UNCHANGED <<variant, _initialized, fn_in, calls, processed_ids, file_kind,
                   file_ids, dispatched, dispatched_prev, handled, restarts,
                   cycle, marked_order, state_ids, state_file, noted, last>>

\* the for loop calls _process_mention on the next mention
SeqCallStart ==
    /\ variant = "sequence"
    /\ pc = "loop"
    /\ batch # <<>>
    /\ for_may_go_on(InFlight)
    /\ fn_out' = [fn_out EXCEPT !.stage[Head(batch)] = "resolve"]
    /\ batch' = Tail(batch)
    /\ UNCHANGED <<variant, _initialized, fn_in, pc, calls, processed_ids, file_kind,
                   file_ids, dispatched, dispatched_prev, handled, restarts,
                   cycle, marked_order, state_ids, state_file, noted, last>>

\* a call that has started goes on to its next await, or returns
SeqCallStep ==
    /\ variant = "sequence"
    /\ \E i \in InFlight :
         \E st \in after_stage(fn_out.stage[i]) :
           fn_out' = [fn_out EXCEPT !.stage[i] = st]
    /\ UNCHANGED <<variant, _initialized, fn_in, pc, calls, batch, processed_ids, file_kind,
                   file_ids, dispatched, dispatched_prev, handled, restarts,
                   cycle, marked_order, state_ids, state_file, noted, last>>

\* the for loop is over and poll_once returns; run_bot sleeps and calls
\* poll_once again
SeqReturn ==
    /\ variant = "sequence"
    /\ pc = "loop"
    /\ batch = <<>>
    /\ for_may_go_on(InFlight)
    /\ pc' = "start"
    /\ UNCHANGED <<variant, _initialized, fn_in, fn_out, calls, batch, processed_ids, file_kind,
                   file_ids, dispatched, dispatched_prev, handled, restarts,
                   cycle, marked_order, state_ids, state_file, noted, last>>

(***************************************************************************)
(* bot.py: the capturing patch of twikit's Client.request.  The class      *)
(* attribute is modelled by the number of patched_request wrappers around  *)
(* the original method.                                                    *)
(***************************************************************************)
\* the operations of bot.py that patch Client.request
PatchingOperations == { "fetch_mentions_raw", "_fetch_tweet" }

\* how the twikit call awaited under the patch ends: it returns, raises an
\* Exception, or the task is cancelled at the await (a BaseException)
PatchedCallOutcomes == { "returns", "raises", "cancelled" }

\* variant of request_after that restores after the call instead of in a
\* finally clause
request_after_on_return(outcome, original_request, request) ==
    IF outcome = "returns" THEN original_request ELSE request

\* fetch_mentions_raw:188-193, _fetch_tweet:323-330: the finally clause
\* assigns original_request to Client.request however the call ended
request_after(outcome, original_request, request) == original_request

\* original_request = Client.request; Client.request = patched_request
PatchInstall ==
    /\ variant = "patch"
    /\ pc = "input"
    /\ \E op \in PatchingOperations :
         fn_out' = [fn_out EXCEPT !.op = op, !.call = "none",
                                  !.original_request = fn_out.request,
                                  !.request = fn_out.request + 1]
    /\ pc' = "patched"
    /\ UNCHANGED <<variant, _initialized, fn_in, calls, batch, processed_ids,
                   file_kind, file_ids, dispatched, dispatched_prev, handled,
                   restarts, cycle, marked_order, state_ids, state_file,
                   noted, last>>

\* the awaited get_notifications / get_tweet_by_id call ends and the
\* operation leaves its try statement
PatchedCall ==
    /\ variant = "patch"
    /\ pc = "patched"
    /\ \E outcome \in PatchedCallOutcomes :
         fn_out' = [fn_out EXCEPT
                       !.call = outcome,
                       !.request = request_after(outcome,
                                                 fn_out.original_request,
                                                 fn_out.request)]
    /\ pc' = "input"
    /\ UNCHANGED <<variant, _initialized, fn_in, calls, batch, processed_ids,
                   file_kind, file_ids, dispatched, dispatched_prev, handled,
                   restarts, cycle, marked_order, state_ids, state_file,
                   noted, last>>

(***************************************************************************)
(* worker.py                                                               *)
(***************************************************************************)
\* the task object get_next_task returns: with every key, with cookies
\* absent or empty, or without the key user_id
Tasks == { "full", "no_cookies", "no_user_id" }

\* download_video: success, or a failure (yt-dlp exit code, no file,
\* timeout, any exception: all caught, success is False)
DownloadOutcomes == { "ok", "failed" }

\* get_upload_info: the JSON object of the answer with its key 'key', None
\* (request failed, or an empty object), or an object without 'key'
UploadInfos == { "ok", "none", "no_key" }

\* upload_to_r2: True or False
UploadOutcomes == { "ok", "failed" }

\* process_task returns after complete_task(task_id, status, ...)
Completed(status) == [completions |-> <<status>>, raised |-> FALSE]

\* process_task is left by a KeyError
KeyError == [completions |-> <<>>, raised |-> TRUE]

\* process_task(task): the complete_task calls it makes, by status, and
\* whether it raises
process_task(task, download, upload_info, upload) ==
    IF task = "no_user_id" THEN KeyError
    ELSE IF task = "no_cookies" THEN Completed("failed")
    ELSE IF download # "ok" THEN Completed("failed")
    ELSE IF upload_info = "none" THEN Completed("failed")
    ELSE IF upload_info = "no_key" THEN KeyError
    ELSE IF upload # "ok" THEN Completed("failed")
    ELSE Completed("completed")

\* main, one iteration with a task: get_next_task returns it and
\* process_task runs; what it raises is caught by main
ProcessTask ==
    /\ variant = "worker"
    /\ pc = "input"
    /\ \E t \in Tasks, d \in DownloadOutcomes, i \in UploadInfos,
          u \in UploadOutcomes :
         LET done == process_task(t, d, i, u)
         IN /\ fn_in' = [fn_in EXCEPT !.task = t, !.download = d,
                                      !.upload_info = i, !.upload = u]
            /\ fn_out' = [fn_out EXCEPT !.completions = done.completions,
                                        !.raised = done.raised]
    /\ pc' = "output"
    /\ UNCHANGED <<variant, _initialized, calls, batch, processed_ids,
                   file_kind, file_ids, dispatched, dispatched_prev, handled,
                   restarts, cycle, marked_order, state_ids, state_file,
                   noted, last>>

\* main: time.sleep(POLL_INTERVAL), then the next iteration
WorkerSleep ==
    /\ variant = "worker"
    /\ pc = "output"
    /\ pc' = "input"
    /\ UNCHANGED <<variant, _initialized, fn_in, fn_out, calls, batch,
                   processed_ids, file_kind, file_ids, dispatched,
                   dispatched_prev, handled, restarts, cycle, marked_order,
                   state_ids, state_file, noted, last>>

(***************************************************************************)
(* run_bot, run_bot_loop                                                   *)
(***************************************************************************)
\* run_bot enters its while loop
RunBot ==
    /\ variant # "sequence"
    /\ pc = "start"
    /\ pc' = "poll"
    /\ UNCHANGED <<variant, _initialized, fn_in, fn_out, calls, batch, processed_ids, file_kind, file_ids,
                   dispatched, dispatched_prev, handled, restarts, cycle,
                   marked_order, state_ids, state_file, noted, last>>

\* poll_once (poll_notifications) has returned to the while loop, which goes
\* on to its sleep
RunBotSleep ==
    /\ pc = "sleep"
    /\ \E r \in RandintOutcomes :
         LET kind == IF variant = "poller" THEN run_bot_loop_sleep
                     ELSE run_bot_sleep(r)
         IN /\ cycle' = [cycle EXCEPT !.sleep = kind]
            /\ pc' = CASE kind = "none" -> "poll"
                      [] variant = "poller" -> "sleeping"
                      [] OTHER -> run_bot_except(r)
    /\ UNCHANGED <<variant, _initialized, fn_in, fn_out, calls, batch, processed_ids, file_kind,
                   file_ids, dispatched, dispatched_prev, handled, restarts,
                   marked_order, state_ids, state_file, noted, last>>

\* asyncio.sleep returns and the while loop polls again
Sleep ==
    /\ pc = "sleeping"
    /\ pc' = "poll"
    /\ cycle' = [NoCycle EXCEPT
                    !.after_exception = cycle.raised \/ cycle.sleep = "backoff"]
    /\ last' = NoCall
    /\ UNCHANGED <<variant, _initialized, fn_in, fn_out, calls, batch, processed_ids, file_kind, file_ids,
                   dispatched, dispatched_prev, handled, restarts,
                   marked_order, state_ids, state_file, noted>>

\* a shutdown signal reaches run_bot (bot.py, bot_direct.py) between two
\* cycles: in the try body after poll_once has returned, or in asyncio.sleep
Signal ==
    /\ variant \in { "bot", "direct" }
    /\ pc \in { "sleep", "sleeping" }
    /\ \E exc \in (IF pc = "sleeping" THEN { "CancelledError" }
                   ELSE ShutdownDeliveries) :
         LET exit == run_bot_on_signal(variant, exc)
         IN /\ cycle' = [cycle EXCEPT
                            !.signal = exc, !.exit = exit,
                            !.sleep = IF exit = "caught" THEN "backoff" ELSE @]
            /\ pc' = IF exit = "caught" THEN "sleeping" ELSE "stopped"
    /\ UNCHANGED <<variant, _initialized, fn_in, fn_out, calls, batch, processed_ids, file_kind,
                   file_ids, dispatched, dispatched_prev, handled, restarts,
                   marked_order, state_ids, state_file, noted, last>>

Next ==
    \/ PollOnceDirect
    \/ ProcessTweet
    \/ ForNext
    \/ SaveState
    \/ Restart
    \/ MarkProcessed
    \/ Save
    \/ Load
    \/ PollOnceBot
    \/ ProcessMention
    \/ PollOnceBotEnd
    \/ PollNotifications
    \/ ProcessNotification
    \/ SaveStatePoller
    \/ ContainsTrigger
    \/ ParseTweetDetail
    \/ FetchTweet
    \/ FetchMentions
    \/ SleepTime
    \/ SleepOver
    \/ RunBot
    \/ RunBotSleep
    \/ Sleep
    \/ Signal
    \/ SeqFetchStart
    \/ SeqFetchEnd
    \/ SeqCallStart
    \/ SeqCallStep
    \/ SeqReturn
    \/ PatchInstall
    \/ PatchedCall
    \/ ProcessTask
    \/ WorkerSleep

Spec == Init /\ [][Next]_vars

\* one run of a bot's process, from run_bot's first line on: the steps of
\* its loop, without the process being stopped and started again
LoopInit ==
    /\ Init
    /\ variant \in { "bot", "direct", "poller" }

LoopNext ==
    \/ RunBot
    \/ PollOnceDirect
    \/ ProcessTweet
    \/ ForNext
    \/ SaveState
    \/ PollOnceBot
    \/ ProcessMention
    \/ PollOnceBotEnd
    \/ PollNotifications
    \/ ProcessNotification
    \/ SaveStatePoller
    \/ RunBotSleep
    \/ Sleep

\* the event loop runs the bot's one task: when poll_once has returned the
\* loop goes on to its sleep, and asyncio.sleep returns
LiveSpec ==
    /\ LoopInit
    /\ [][LoopNext]_vars
    /\ WF_vars(RunBotSleep)
    /\ WF_vars(Sleep)

(***************************************************************************)
(* Properties.  `last` is the record of the _process_tweet or              *)
(* _process_mention call that has just ended (NoCall otherwise).           *)
(***************************************************************************)
DirectCall == variant = "direct" /\ last.call
BotCall == variant = "bot" /\ last.call

\* the reply-target id is present and non-empty
HasReplyTarget(rec) == rec.reply_to # NoneId /\ rec.reply_to # ""

\* the texts on which contains_trigger is true, in bot_direct.py and in bot.py
TriggeringDirect == { t \in Texts : contains_trigger_direct(t) = "True" }
TriggeringBot == { t \in Texts : contains_trigger_bot(t) = "True" }

\* contains_trigger(text) of the running variant is true
HasTrigger(rec) ==
    IF variant = "direct" THEN rec.text \in TriggeringDirect
    ELSE rec.text \in TriggeringBot

\* C1: bot_direct.py, within one running process call_bot_save is called at
\* most once per mention id: no call dispatches an id this process has
\* dispatched before.
C1_AtMostOneDispatchPerId ==
    ~(DirectCall /\ last.dispatched /\ last.again)

\* C2: bot_direct.py, a mention id dispatched before a restart is not
\* dispatched again by the process started after it.
C2_NoDispatchAgainAfterRestart ==
    ~(DirectCall /\ last.dispatched /\ last.id \in dispatched_prev)

C4_NoReplyTargetMarkedNotDispatched ==
    (DirectCall /\ ~last.known /\ ~HasReplyTarget(last))
        => /\ ~last.dispatched
           /\ last.ret # "raise" => last.id \in processed_ids

C4_Witness ==
    /\ DirectCall /\ ~last.known /\ HasTrigger(last)
    /\ last.reply_to = "" /\ last.ret = "False"
    /\ last.id \in processed_ids

C7_LikeOnlyAfterSuccessfulDispatch ==
    (last.call /\ last.liked)
        => /\ last.dispatched
           /\ last.result.success /\ last.result.user_found

C7_Witness ==
    /\ DirectCall /\ last.liked /\ last.dispatched
    /\ last.result.success /\ last.result.user_found

\* C8: in both variants, when the backend answers success and
\* already_processed, no like is issued, whatever the other flags.
C8_NoLikeWhenAlreadyProcessed ==
    (last.call /\ last.dispatched
        /\ last.result.success /\ last.result.already_processed)
        => ~last.liked

\* C9: bot_direct.py _process_tweet, whatever call_bot_save returned, the
\* id of a dispatched mention is in processed_ids when the call returns.
C9_DispatchedAlwaysMarked ==
    (DirectCall /\ last.dispatched)
        => (last.ret \in { "True", "False" } /\ last.id \in processed_ids)

C9_Witness ==
    /\ DirectCall /\ last.dispatched /\ last.transport = "exception"
    /\ ~last.result.success /\ last.id \in processed_ids

\* C10: a failing like never escapes and never changes the outcome: the
\* call returns True and, in bot_direct.py, the id stays in processed_ids.
C10_FailingLikeChangesNothing ==
    (last.call /\ last.liked /\ last.like # "ok")
        => /\ last.ret = "True"
           /\ variant = "direct" => last.id \in processed_ids

C10_Witness ==
    /\ DirectCall /\ last.liked /\ last.like = "exception"
    /\ last.ret = "True" /\ last.id \in processed_ids

\* a dispatch that met a network error, a timeout or a non-2xx status
FailedDispatch(rec) ==
    rec.dispatched /\ rec.transport \in { "http_error", "exception" }

\* C11: bot.py, a dispatch that fails (network error, timeout, non-2xx
\* status) comes back from call_bot_save as success=false with an error
\* string, nothing is raised, and it is not retried: the call made one POST,
\* and within one poll_once no mention has caused more than one
\* call_bot_save.
C11_FailedDispatchReturnedNotRetried ==
    /\ (BotCall /\ FailedDispatch(last))
          => /\ ~last.result.success /\ last.result.error
             /\ last.ret = "False"
             /\ last.attempts = 1
    /\ variant = "bot" => \A i \in Ids : calls[i] <= 1

C11_Witness ==
    /\ BotCall /\ FailedDispatch(last) /\ last.transport = "exception"
    /\ last.result = FailResult /\ last.ret = "False"
    /\ calls[last.id] = 1

\* C12 as stated: every dispatch carries the id of the triggering mention as
\* mention_id, together with the sender handle and the target URL.
C12_DispatchCarriesMentionId ==
    (last.call /\ last.dispatched)
        => /\ last.cmd.mention_id = last.id
           /\ last.cmd.handle = Sender
           /\ last.cmd.url_id = last.reply_to

\* C13 as stated: the target text of a dispatched command is the text of
\* the reply-target tweet, or absent when the target was not resolved; it is
\* never the text of the mention itself.
C13_TargetTextIsTheTargets ==
    (last.call /\ last.dispatched)
        => /\ last.cmd.tweet_text =
                 (IF last.target.found THEN last.target.text ELSE NoneText)
           /\ last.cmd.tweet_text # last.text

\* StateManager.save or save_state has just returned
JustSaved == cycle.saves > 0

\* the elements of a list
Range(q) == { q[i] : i \in 1..Len(q) }

\* C14: after every StateManager.save (bot_direct.py) the set of processed
\* ids holds at most MAX_STORED_IDS ids, and after every save_state
\* (bot_poller.py) the list holds at most STATE_MAX_IDS ids, whatever was
\* marked before the call.
C14_AtMostCapacityAfterSave ==
    JustSaved =>
        /\ variant \in { "direct", "store" }
              => Cardinality(processed_ids) <= MAX_STORED_IDS
        /\ variant = "poller" => Len(state_ids) <= STATE_MAX_IDS

C14_Witness ==
    /\ variant = "direct" /\ JustSaved /\ pc = "sleep"
    /\ cycle.held > MAX_STORED_IDS
    /\ Cardinality(processed_ids) = MAX_STORED_IDS

\* C15 as stated: bot_direct.py StateManager, after mark_processed on more
\* than MAX_STORED_IDS distinct ids followed by save, processed_ids and the
\* ids written to the file are exactly the MAX_STORED_IDS most recently
\* marked ids.
C15_KeepsMostRecentlyMarked ==
    (variant = "store" /\ JustSaved /\ Len(cycle.order) > MAX_STORED_IDS)
        => /\ processed_ids = Range(LastN(cycle.order, MAX_STORED_IDS))
           /\ cycle.written
                 => file_ids = Range(LastN(cycle.order, MAX_STORED_IDS))

\* C16 as stated: every poll cycle persists the dedup store exactly once:
\* when poll_once (bot_direct.py) or poll_notifications (bot_poller.py) has
\* returned, save / save_state was called exactly once in it.
C16_SavedExactlyOncePerCycle ==
    (variant \in { "direct", "poller" } /\ pc = "sleep") => cycle.saves = 1

\* C17: loading the dedup store never aborts startup: with the file
\* missing, unreadable or unparsable, _load (bot_direct.py) and load_state
\* (bot_poller.py) leave an empty collection and the program goes on.
C17_LoadNeverAborts ==
    /\ pc # "aborted"
    /\ (pc = "start" /\ file_kind # "ok")
          => /\ variant = "direct" => processed_ids = {}
             /\ variant = "poller" => state_ids = <<>>

C17_Witness ==
    /\ variant = "direct" /\ pc = "start" /\ restarts > 0
    /\ file_kind = "corrupt" /\ processed_ids = {}

\* a function has been applied to fn_in
Applied(fn) == variant = fn /\ pc = "output"

\* C18 as stated: contains_trigger(text) in bot.py and in bot_direct.py is
\* true exactly when the lower-cased text contains one of the tokens save,
\* keep, tidy, bookmark, U+6536 U+85CF, U+4FDD U+5B58.
C18_TriggerIffTokenInText ==
    Applied("trigger") =>
        LET tokens == << <<"s","a","v","e">>, <<"k","e","e","p">>,
                         <<"t","i","d","y">>,
                         <<"b","o","o","k","m","a","r","k">>,
                         <<"U+6536","U+85CF">>, <<"U+4FDD","U+5B58">> >>
            expected == IF AnyTrigger(tokens, fn_in.text) THEN "True" ELSE "False"
        IN fn_out.bot = expected /\ fn_out.direct = expected

\* the entries of the first TimelineAddEntries instruction of fn_in
AddEntries ==
    LET adds == { i \in 1..Len(fn_in.instructions) :
                    fn_in.instructions[i].type = "TimelineAddEntries" }
    IN IF adds = {} THEN <<>>
       ELSE fn_in.instructions[CHOOSE i \in adds : \A j \in adds : i <= j].entries

\* C19 as stated: _parse_tweet_detail(data, T), whenever the
\* TimelineAddEntries instruction has an entry for tweet T with a non-empty
\* result, returns that entry's tweet (id T, author handle of its user
\* substructure), whatever the other entries and their order.
C19_EntryOfTargetReturned ==
    (Applied("parse") /\ \E i \in 1..Len(AddEntries) :
            /\ AddEntries[i].entryId = TweetPrefix \o fn_in.target_id
            /\ ~AddEntries[i].result.empty)
        => /\ fn_out.parsed.found
           /\ fn_out.parsed.id = fn_in.target_id
           /\ fn_out.parsed.author_handle = ScreenNameOf(fn_in.target_id)

\* C20: _parse_tweet_detail, when no entry id of the add-entries
\* instruction embeds the target id, returns the tweet of the first entry's
\* result, and None when the first entry has no result (or there is no
\* entry); no later entry serves as the fallback.
C20_FallbackIsFirstEntryOnly ==
    (Applied("parse") /\ AddEntries # <<>>
        /\ \A i \in 1..Len(AddEntries) :
              ~entry_matches(AddEntries[i], fn_in.target_id))
        => fn_out.parsed =
              (IF AddEntries[1].result.empty THEN NoParsed
               ELSE [found |-> TRUE, id |-> AddEntries[1].result.id_str,
                     author_handle |-> AddEntries[1].result.screen_name])

C20_Witness ==
    /\ Applied("parse") /\ Len(AddEntries) = 2
    /\ fn_in.target_id = <<"7">>
    /\ \A i \in 1..2 : ~entry_matches(AddEntries[i], fn_in.target_id)
    /\ AddEntries[1].result.empty /\ ~AddEntries[2].result.empty
    /\ fn_out.parsed = NoParsed

\* C21: bot.py tweet resolution never propagates an error: neither
\* _parse_tweet_detail nor _fetch_tweet raises, whatever the payload lacks,
\* and a payload without data, conversation, instruction list or
\* add-entries instruction yields None from both.
C21_ResolutionNeverRaises ==
    Applied("resolve") =>
        /\ ~fn_out.parse_call.raised
        /\ ~fn_out.fetched.raised
        /\ (fn_in.shape # "full" \/ AddEntries = <<>>)
              => /\ fn_out.parse_call.value = NoParsed
                 /\ fn_out.fetched.value = NoParsed

C21_Witness ==
    /\ Applied("resolve") /\ fn_in.shape = "null_data"
    /\ fn_in.captured = "payload" /\ fn_in.client = "raises"
    /\ fn_out.parse_call = Returns(NoParsed)
    /\ fn_out.fetched = Returns(NoParsed)

\* C22: bot.py _process_mention, when _fetch_tweet yields None for the reply
\* target, the actionable mention is still dispatched, once, with the URL
\* https://x.com/i/status/<reply_to>, no target text, no author handle, no
\* author name and an empty media list.
C22_UnresolvedTargetDispatchedBare ==
    (BotCall /\ HasTrigger(last) /\ HasReplyTarget(last) /\ ~last.target.found)
        => /\ last.dispatched /\ last.attempts = 1
           /\ last.cmd = [handle |-> Sender, url_handle |-> "i",
                          url_id |-> last.reply_to, mention_id |-> last.id,
                          tweet_text |-> NoneText, author_handle |-> NoneId,
                          author_name |-> NoneId, media_urls |-> <<>>]

C22_Witness ==
    /\ BotCall /\ last.dispatched /\ ~last.target.found
    /\ last.reply_to = "t1" /\ last.cmd.url_handle = "i"
    /\ last.cmd.url_id = "t1" /\ last.cmd.media_urls = <<>>
    /\ last.cmd.tweet_text = NoneText

\* the answer is no payload the fetch can parse
FetchFailed ==
    fn_in.transport # "ok" \/ fn_in.shape \in { "null_objects", "not_a_dict" }

\* C23: the mention fetch never raises: fetch_mentions_raw (bot.py) and
\* search_mentions (bot_direct.py) return a list, and the empty list on a
\* network failure, a status other than 200, a missing captured response or
\* a payload that cannot be parsed.
C23_MentionFetchNeverRaises ==
    Applied("mentions") =>
        /\ ~fn_out.fetched_raw.raised
        /\ ~fn_out.searched.raised
        /\ FetchFailed => /\ fn_out.fetched_raw.value = <<>>
                          /\ fn_out.searched.value = <<>>

C23_Witness ==
    /\ Applied("mentions") /\ fn_in.transport = "invalid_json"
    /\ fn_in.tweets # <<>>
    /\ fn_out.fetched_raw = Returns(<<>>)
    /\ fn_out.searched = Returns(<<>>)

\* the ids of the entries of a tweets mapping that are tweet objects with
\* their fields, in the mapping's order
WellFormedIds(tweets) ==
    LET kept == SelectSeq(tweets, LAMBDA e : e.kind = "complete")
    IN [i \in 1..Len(kept) |-> kept[i].id]

\* the ids of a list of mention records that carry their fields
RecordIds(mentions) ==
    LET kept == SelectSeq(mentions, LAMBDA m : m.has_fields)
    IN [i \in 1..Len(kept) |-> kept[i].id]

\* C24 as stated: parse_mentions_response (bot.py) and _parse_search_results
\* (bot_direct.py) skip a malformed entry and return one mention record for
\* every well-formed entry of the payload, wherever the malformed entry sits
\* in the tweets mapping.
C24_MalformedEntrySkipped ==
    (Applied("mentions") /\ fn_in.shape = "full")
        => /\ RecordIds(fn_out.mentions) = WellFormedIds(fn_in.tweets)
           /\ RecordIds(fn_out.search_results) = WellFormedIds(fn_in.tweets)

\* C25 as stated: a mention whose text is null degrades per item: the call
\* for it does not raise, and when poll_once of bot.py or of bot_direct.py
\* has returned from a cycle that fetched mentions, every mention of the
\* batch was passed to a call and, in bot_direct.py, the store was saved.
C25_NullTextDegradesPerItem ==
    variant \in { "bot", "direct" } =>
        /\ (last.call /\ last.text = NoneText) => last.ret # "raise"
        /\ (pc = "sleep" /\ cycle.fetched)
              => /\ cycle.left = 0
                 /\ variant = "direct" => cycle.saves = 1

\* the while loop takes its next step: from the cycle that has ended to a
\* sleep, from a sleep that was performed to the next poll
LoopStep ==
    /\ pc = "sleep" => pc' \in { "sleeping", "start", "stopped" }
    /\ (pc' = "poll" /\ pc # "poll")
          => \/ pc = "start"
             \/ pc = "sleeping" /\ cycle.sleep \in { "jitter", "backoff", "interval" }

\* C26: in run_bot (bot.py, bot_direct.py) and run_bot_loop (bot_poller.py)
\* every poll cycle, one with an empty fetch and one that ended in an
\* exception included, is followed by a sleep before the next fetch: no two
\* poll calls happen without a sleep between them.
C26_SleepBetweenPolls == [][LoopStep]_vars

C26_Witness ==
    /\ variant = "direct" /\ pc = "sleeping" /\ cycle.raised
    /\ cycle.sleep = "jitter" /\ cycle.left > 0

\* C27 as stated: bot.py, after a poll cycle in which an exception was
\* raised, run_bot is in the backoff sleep of its except clause, not in the
\* jittered sleep.
C27_BackoffAfterException ==
    (variant = "bot" /\ pc = "sleeping" /\ cycle.raised)
        => cycle.sleep = "backoff"

\* C28 as stated: the backoff sleep run_bot (bot.py, bot_direct.py) performs
\* after an exception is longer than every normal sleep: it lasts more than
\* POLL_MAX_SECONDS.
C28_BackoffLongerThanPollMax ==
    (Applied("timing") /\ fn_out.slept.kind = "backoff")
        => fn_out.slept.seconds > fn_in.settings.max

\* C29: in run_bot (bot.py, bot_direct.py) the sleep after a cycle that ends
\* without an exception is an integer d with POLL_MIN_SECONDS <= d <=
\* POLL_MAX_SECONDS, drawn for that cycle.
C29_JitterWithinRange ==
    (Applied("timing") /\ fn_out.slept.kind = "jitter")
        => /\ fn_out.slept.seconds \in Int
           /\ fn_in.settings.min <= fn_out.slept.seconds
           /\ fn_out.slept.seconds <= fn_in.settings.max

C29_Witness ==
    /\ Applied("timing")
    /\ fn_out.slept.kind = "jitter" /\ fn_out.slept_before.kind = "jitter"
    /\ fn_out.slept.seconds = POLL_MAX_SECONDS
    /\ fn_out.slept_before.seconds = POLL_MIN_SECONDS

\* a poll cycle has ended in which an exception was raised: inside poll_once
\* (poll_notifications), or in the try body of run_bot after it
AfterException ==
    \/ pc = "sleep" /\ cycle.raised
    \/ pc = "sleeping" /\ cycle.sleep = "backoff"

\* C30: once polling has started, the loop of run_bot (bot.py,
\* bot_direct.py) and run_bot_loop (bot_poller.py) never ends because of an
\* exception raised in a cycle: no exception leaves the loop, and after a
\* cycle in which one was raised another poll cycle eventually starts.
C30_LoopSurvivesExceptions ==
    /\ [](pc # "ended")
    /\ AfterException ~> (pc = "poll")

C30_Witness ==
    /\ variant = "bot" /\ pc = "poll" /\ cycle.after_exception

\* a shutdown signal has reached the loop
Signalled == cycle.signal # "none"

\* a step of the process that has received the signal
AfterSignal ==
    Signalled =>
        /\ pc = "stopped"
        /\ restarts' = restarts
              => /\ pc' = "stopped"
                 /\ dispatched' = dispatched
                 /\ calls' = calls
                 /\ batch' = batch
                 /\ last' = last

\* C31: a shutdown signal raised while run_bot (bot.py, bot_direct.py) is
\* sleeping or between two cycles ends the loop before another poll cycle
\* starts: the sleep is interrupted and no fetch, dispatch or like happens
\* after the signal.
C31_ShutdownEndsLoop == [][AfterSignal]_vars

C31_Witness ==
    /\ variant = "direct" /\ pc = "stopped"
    /\ cycle.signal = "CancelledError" /\ cycle.sleep = "jitter"
    /\ dispatched # {}

\* C39 as stated: bot.py run_bot, when a KeyboardInterrupt is raised inside
\* the loop body, the handler saves the bot state and leaves the loop, and
\* run_bot returns without raising any other exception.
C39_InterruptSavesAndReturns ==
    (variant = "bot" /\ pc = "stopped" /\ cycle.signal = "KeyboardInterrupt")
        => cycle.exit = "returned"

\* C32: in poll_once of bot.py and bot_direct.py at most one mention is
\* being handled at any time (the resolve, dispatch and like of the next
\* mention of a batch start only after the call on the mention before has
\* returned), and no fetch is in flight while a batch is being processed.
C32_OneMentionAtATime ==
    variant = "sequence" =>
        /\ Cardinality(InFlight) <= 1
        /\ fn_out.fetching => (InFlight = {} /\ batch = <<>>)

C32_Witness ==
    /\ variant = "sequence" /\ pc = "loop"
    /\ batch # <<>>
    /\ \E i \in Ids : fn_out.stage[i] = "like"

\* poll_notifications has been entered and the next one has not
InCycle == variant = "poller" /\ cycle.polled

\* C33: bot_poller.py, an authentication error during get_notifications
\* ends only the current cycle: the loop is not left and sleeps its
\* interval, _initialized is false after it, a poll_notifications entered
\* with _initialized false calls get_notifications only after initialize()
\* has succeeded and returns without a fetch otherwise, and
\* get_notifications is never called while _initialized is false.
C33_AuthErrorEndsOnlyTheCycle ==
    InCycle =>
        /\ pc \in { "loop", "called", "sleep", "sleeping" }
        /\ cycle.called => cycle.ready
        /\ cycle.auth_error
              => /\ ~_initialized
                 /\ pc \in { "sleep", "sleeping" }
                 /\ pc = "sleeping" => cycle.sleep = "interval"
        /\ (~cycle.entered_ready /\ ~cycle.called)
              => /\ ~_initialized
                 /\ pc \in { "sleep", "sleeping" }
                 /\ ~cycle.fetched

C33_Witness ==
    /\ InCycle /\ pc = "loop"
    /\ ~cycle.entered_ready /\ cycle.called /\ cycle.ready
    /\ batch # <<>>

\* C34 as stated: bot_poller.py extract_command_payload, called on a tweet
\* that has a user with a handle and an id and a non-empty
\* in_reply_to_status_id, returns a payload whose target_tweet_id is that
\* id, whether or not the tweet has a reply_to attribute.
C34_PayloadTargetsReplyId ==
    (variant = "poller" /\ noted.call /\ noted.extracted
        /\ Truthy(noted.reply_to))
        => noted.payload.target_tweet_id = noted.reply_to

\* C35 as stated: bot_poller.py save_state keeps only the last 1000
\* processed ids (STATE_MAX_IDS in the model): after save_state the
\* processed_ids list is the most recently appended min(len, 1000) ids of
\* the list before the call, in insertion order.
C35_KeepsLastThousand ==
    (variant = "poller" /\ JustSaved)
        => state_ids = LastN(cycle.order, STATE_MAX_IDS)

\* C36 as stated: bot_poller.py _process_notification, every notification
\* that has a tweet and a non-empty id and is not yet processed is in
\* processed_ids when the call returns.
C36_EligibleNotificationMarked ==
    (variant = "poller" /\ noted.call /\ noted.has_tweet /\ ~noted.known)
        => is_processed_state(state_ids, noted.id)

\* C37: bot.py, after fetch_mentions_raw and after _fetch_tweet have ended,
\* whether the wrapped twikit call returned or raised, Client.request is
\* again the original method: no patched_request is left installed between
\* two operations, and none is installed over another.
C37_PatchNeverLeftInstalled ==
    variant = "patch" =>
        /\ pc = "input" => fn_out.request = 0
        /\ fn_out.request <= 1

C37_Witness ==
    /\ variant = "patch" /\ pc = "input"
    /\ fn_out.op = "_fetch_tweet" /\ fn_out.call = "raises"
    /\ fn_out.request = 0

\* C38 as stated: bot.py, the target URL of every dispatched save command
\* is https://x.com/<h>/status/<reply_to> with <reply_to> the mention's
\* reply-target id and <h> non-empty: the resolved author handle, or 'i'
\* when no author handle is known.
C38_TargetUrlHasHandle ==
    (BotCall /\ last.dispatched)
        => /\ last.cmd.url_id = last.reply_to
           /\ last.cmd.url_handle # ""
           /\ last.cmd.url_handle =
                 (IF Truthy(last.target.author_handle)
                  THEN last.target.author_handle ELSE "i")

\* download, upload-URL retrieval and R2 upload all succeeded
AllSucceeded ==
    /\ fn_in.download = "ok"
    /\ fn_in.upload_info # "none"
    /\ fn_in.upload = "ok"

\* C40 as stated: worker.py process_task, for every task taken from
\* get_next_task complete_task is called exactly once before process_task
\* ends, with status 'completed' only when download, upload-URL retrieval
\* and R2 upload all succeeded, and with status 'failed' otherwise.
C40_CompletedExactlyOnce ==
    (variant = "worker" /\ pc = "output")
        => /\ Len(fn_out.completions) = 1
           /\ fn_out.completions[1] = "completed"
                 => (fn_in.task = "full" /\ AllSucceeded)
           /\ fn_out.completions[1] \in { "completed", "failed" }
====
